---- MODULE Spec2Model ----
(***************************************************************************)
(* A model of the image converter: src/src/convert_heic.py (the            *)
(* conversion engine and its command-line front end), with the parts of    *)
(* the file system, of the logging module and of the imaging library that  *)
(* the engine's behaviour depends on.                                      *)
(*                                                                         *)
(* Strings are sequences of one-character strings, so that lower(),        *)
(* upper(), endswith(), splitext() and the ordering used by sorted() are   *)
(* computed character by character as Python computes them.                *)
(***************************************************************************)
EXTENDS Integers, Sequences, FiniteSets, TLC

VARIABLES
    fs,            \* the file system: path -> [isdir, data]
    normcase,      \* TRUE where os.path.normcase folds case (Windows), FALSE on POSIX
    pc,            \* position of the running operation
    image_files,   \* the list get_image_files returned
    args,          \* main: the parsed command line
    fs0,           \* history: the file system as the run found it
    scanned,       \* history: the names the source directory held when it was listed
    idx,           \* convert_images: index in image_files of the file the loop is at
    successful,    \* convert_images: local counter
    failed,        \* convert_images: local counter
    attempts,      \* history: the jobs attempted, in order
    stats,         \* the dict convert_images returned
    raised,        \* main: an exception escaped convert_images
    exitCode,      \* the process exit status, -1 while the process runs
    lg,            \* the logging module's state and what was written through it
    clear_calls,   \* history: the calls of clear_output_folder made by a caller
    source_img,    \* the image Image.open decodes for convert_image_to_format
    raster,        \* the raster convert_image_to_format returned
    returned_logs, \* history: the log files the calls of setup_logging returned
    python,        \* sys.version_info of the interpreter, as <<major, minor>>
    importable,    \* the packages __import__ finds
    missing_packages, \* setup.py: the packages main still has to install
    steps,         \* history: what the bootstrapper did, in order
    choice,        \* example_usage.py: what the user typed at the menu
    scenarios      \* history: the examples example_usage.py ran, in order

fsVars == <<fs, normcase>>

runVars == <<args, fs0, scanned, idx, successful, failed, attempts, stats, raised, exitCode>>

toolVars == <<python, importable, missing_packages, steps, choice, scenarios>>

apiVars == <<clear_calls, source_img, raster, returned_logs, toolVars>>

vars == <<fs, normcase, pc, image_files, runVars, lg, apiVars>>

----------------------------------------------------------------------------
(* Characters and strings *)

\* The ASCII characters from "*" (42) to "z" (122), in code order; the grave
\* accent (96) keeps its place under a name no file name uses.
Ascii ==
    << "*", "+", ",", "-", ".", "/",
       "0", "1", "2", "3", "4", "5", "6", "7", "8", "9",
       ":", ";", "<", "=", ">", "?", "@",
       "A", "B", "C", "D", "E", "F", "G", "H", "I", "J", "K", "L", "M",
       "N", "O", "P", "Q", "R", "S", "T", "U", "V", "W", "X", "Y", "Z",
       "[", "\\", "]", "^", "_", "(grave)",
       "a", "b", "c", "d", "e", "f", "g", "h", "i", "j", "k", "l", "m",
       "n", "o", "p", "q", "r", "s", "t", "u", "v", "w", "x", "y", "z" >>

\* The code point of every character of the table.
CodePoints ==
    [c \in {Ascii[i] : i \in 1..Len(Ascii)} |->
        41 + (CHOOSE i \in 1..Len(Ascii) : Ascii[i] = c)]

ord(c) == CodePoints[c]

chr(n) == Ascii[n - 41]

\* str.lower(): every "A".."Z" moves 32 code points up, all else stays.
str_lower(s) ==
    [i \in 1..Len(s) |-> IF ord(s[i]) \in 65..90 THEN chr(ord(s[i]) + 32) ELSE s[i]]

\* str.upper(): every "a".."z" moves 32 code points down, all else stays.
str_upper(s) ==
    [i \in 1..Len(s) |-> IF ord(s[i]) \in 97..122 THEN chr(ord(s[i]) - 32) ELSE s[i]]

\* str.endswith()
endswith(s, suffix) ==
    /\ Len(suffix) <= Len(s)
    /\ SubSeq(s, Len(s) - Len(suffix) + 1, Len(s)) = suffix

\* str.startswith()
startswith(s, prefix) ==
    /\ Len(prefix) <= Len(s)
    /\ SubSeq(s, 1, Len(prefix)) = prefix

\* The order of str: by code point at the first difference, a proper prefix first.
str_lt(s, t) ==
    LET n == IF Len(s) < Len(t) THEN Len(s) ELSE Len(t)
        diff == {i \in 1..n : s[i] # t[i]}
    IN  IF diff = {}
        THEN Len(s) < Len(t)
        ELSE LET k == CHOOSE i \in diff : \A j \in diff : i <= j
             IN  ord(s[k]) < ord(t[k])

Range(seq) == {seq[i] : i \in 1..Len(seq)}

RECURSIVE insort(_, _)
\* x put into the ascending list seq, after the elements not greater than it.
insort(seq, x) ==
    IF seq = <<>> THEN <<x>>
    ELSE IF str_lt(x, Head(seq)) THEN <<x>> \o seq
    ELSE <<Head(seq)>> \o insort(Tail(seq), x)

RECURSIVE sorted(_)
\* sorted(list): ascending, duplicates kept.
sorted(seq) ==
    IF seq = <<>> THEN <<>>
    ELSE insort(sorted(SubSeq(seq, 1, Len(seq) - 1)), seq[Len(seq)])

RECURSIVE list(_)
\* list(set): the elements of a set, each once, in some order.
list(S) ==
    IF S = {} THEN <<>>
    ELSE LET x == CHOOSE y \in S : TRUE IN <<x>> \o list(S \ {x})

\* set(list)
set(seq) == Range(seq)

----------------------------------------------------------------------------
(* Paths and the file system *)

Sep == <<"/">>

\* os.path.join(folder, name)
join(folder, name) == folder \o Sep \o name

\* os.path.basename(path): what follows the last separator.
basename(path) ==
    LET seps == {i \in 1..Len(path) : path[i] = "/"}
    IN  IF seps = {} THEN path
        ELSE SubSeq(path, (CHOOSE i \in seps : \A j \in seps : j <= i) + 1, Len(path))

\* os.path.dirname(path): what precedes the last separator.
dirname(path) ==
    LET seps == {i \in 1..Len(path) : path[i] = "/"}
    IN  IF seps = {} THEN <<>>
        ELSE SubSeq(path, 1, (CHOOSE i \in seps : \A j \in seps : j <= i) - 1)

\* os.path.splitext(name) of a name without separators: the extension starts at
\* the last dot, unless only dots precede that dot.
splitext(name) ==
    LET dots == {i \in 1..Len(name) : name[i] = "."}
    IN  IF dots = {} THEN <<name, <<>>>>
        ELSE LET d == CHOOSE i \in dots : \A j \in dots : j <= i
             IN  IF \E i \in 1..(d - 1) : name[i] # "."
                 THEN <<SubSeq(name, 1, d - 1), SubSeq(name, d, Len(name))>>
                 ELSE <<name, <<>>>>

NoData == [kind |-> "none", of |-> <<>>, fmt |-> "none"]

Dir == [isdir |-> TRUE, data |-> NoData]

File(data) == [isdir |-> FALSE, data |-> data]

\* The bytes a file held before the program ran.
Orig(path) == [kind |-> "orig", of |-> path, fmt |-> "raw"]

exists(f, path) == path \in DOMAIN f

isdir(f, path) == path \in DOMAIN f /\ f[path].isdir

\* os.listdir(folder): the names of the direct entries.
listdir(f, folder) ==
    {basename(p) : p \in {q \in DOMAIN f : dirname(q) = folder}}

----------------------------------------------------------------------------
(* Directories of the model *)

SrcDir == <<"s">>

OutDir == <<"o">>

SubDir == join(SrcDir, <<"s", "u", "b">>)

\* A name a source directory may hold as a directory.
DirNamedLikeImage == <<"d", ".", "p", "n", "g">>

\* A file system with the given plain files and directories, each file holding
\* its original bytes.
MakeFs(files, dirs) ==
    [p \in files \cup dirs |-> IF p \in dirs THEN Dir ELSE File(Orig(p))]

\* No two names of one directory differ by case only, as on a file system
\* that folds case.
CaseDistinct(names) ==
    \A x \in names : \A y \in names : str_lower(x) = str_lower(y) => x = y

----------------------------------------------------------------------------
(* get_image_files *)

patterns ==
    << <<"*", ".", "h", "e", "i", "c">>, <<"*", ".", "H", "E", "I", "C">>,
       <<"*", ".", "h", "e", "i", "f">>, <<"*", ".", "H", "E", "I", "F">>,
       <<"*", ".", "j", "p", "g">>,      <<"*", ".", "J", "P", "G">>,
       <<"*", ".", "j", "p", "e", "g">>, <<"*", ".", "J", "P", "E", "G">>,
       <<"*", ".", "p", "n", "g">>,      <<"*", ".", "P", "N", "G">> >>

\* fnmatch.fnmatch(name, pat) for a pattern "*" + literal: both sides go through
\* os.path.normcase, then the name must end with the literal.
fnmatch(name, pat, fold) ==
    LET n == IF fold THEN str_lower(name) ELSE name
        p == IF fold THEN str_lower(pat) ELSE pat
    IN  /\ Head(p) = "*"
        /\ endswith(n, Tail(p))

\* glob's _ishidden
ishidden(name) == Head(name) = "."

\* Every name under a folder, at any depth, relative to the folder.
listdir_recursive(f, folder) ==
    {SubSeq(q, Len(folder) + 2, Len(q)) :
        q \in {r \in DOMAIN f : startswith(r, folder \o Sep)}}

\* A glob that walks into subdirectories.
glob_names_recursive(f, folder) ==
    IF isdir(f, folder) THEN listdir_recursive(f, folder) ELSE {}

\* The names glob matches a pattern against: the folder's direct entries, none
\* when the folder cannot be listed.
glob_names(f, folder) ==
    IF isdir(f, folder) THEN listdir(f, folder) ELSE {}

\* glob.glob(os.path.join(folder, pat)): the paths of the direct, non-hidden
\* entries (files and directories alike) whose name matches.  The order is the
\* directory's; sorted() below makes it immaterial, so one order stands for all.
glob(f, folder, pat, fold) ==
    list({join(folder, name) :
            name \in {x \in glob_names(f, folder) :
                        ~ishidden(x) /\ fnmatch(x, pat, fold)}})

RECURSIVE extend_all(_, _, _, _)
\* image_files after the loop over patterns[1..n]: the matches of each, appended.
extend_all(f, folder, fold, n) ==
    IF n = 0 THEN <<>>
    ELSE extend_all(f, folder, fold, n - 1) \o glob(f, folder, patterns[n], fold)

\* What survives of the collected list: duplicates removed.
dedup(seq) == list(set(seq))

RECURSIVE reversed(_)
reversed(seq) ==
    IF seq = <<>> THEN <<>> ELSE reversed(Tail(seq)) \o <<Head(seq)>>

\* A discovery that sorts descending.
get_image_files_descending(f, source_folder, fold) ==
    reversed(sorted(dedup(extend_all(f, source_folder, fold, Len(patterns)))))

get_image_files(f, source_folder, fold) ==
    sorted(dedup(extend_all(f, source_folder, fold, Len(patterns))))

\* The supported extensions, lower case (the data model infers the format from
\* the extension without regard to case).
SupportedExts ==
    { <<".", "h", "e", "i", "c">>, <<".", "h", "e", "i", "f">>,
      <<".", "j", "p", "g">>, <<".", "j", "p", "e", "g">>, <<".", "p", "n", "g">> }

HasSupportedExt(name) == str_lower(splitext(name)[2]) \in SupportedExts

Occurrences(seq, x) == Cardinality({i \in 1..Len(seq) : seq[i] = x})

StrictlyAscending(seq) ==
    \A i \in 1..Len(seq) : \A j \in 1..Len(seq) : i < j => str_lt(seq[i], seq[j])

----------------------------------------------------------------------------
(* The logging module, as far as setup_logging and the engine use it *)

DEBUG == 10

INFO == 20

WARNING == 30

ERROR == 40

FileHandler(log_file) == [kind |-> "file", file |-> log_file]

StreamHandler(stream) == [kind |-> stream, file |-> 0]

\* A record: its level, its text, the log file it names (0: none), and how many
\* calls of setup_logging preceded it.
Record(level, msg, file, calls) ==
    [level |-> level, msg |-> msg, file |-> file, calls |-> calls]

\* The logging module before anything configured it: the root logger has no
\* handler and its level is WARNING.
FreshLogging(now) ==
    [handlers |-> <<>>, level |-> WARNING, files |-> <<>>, console |-> <<>>,
     now |-> now, calls |-> 0]

\* open(log_file, "a"): the file exists afterwards, with what it already held.
open_append(files, log_file) ==
    IF log_file \in DOMAIN files THEN files ELSE (log_file :> <<>>) @@ files

\* logging.basicConfig(level=..., handlers=...): does nothing when the root
\* logger already has handlers.
basicConfig(l, level, handlers) ==
    IF l.handlers # <<>> THEN l
    ELSE [l EXCEPT !.handlers = handlers, !.level = level]

RECURSIVE handle(_, _, _)
\* The record handed to handlers[1..n] of the root logger.
handle(l, rec, n) ==
    IF n = 0 THEN l
    ELSE LET m == handle(l, rec, n - 1)
             h == l.handlers[n]
         IN  IF h.kind = "file"
             THEN [m EXCEPT !.files[h.file] = Append(@, rec)]
             ELSE [m EXCEPT !.console = Append(@, rec)]

\* logging.debug/info/warning/error(msg): with no handler on the root logger a
\* stderr handler is installed first (the level stays); a record below the root
\* logger's level is dropped.
emit(l, level, msg, file) ==
    LET c == IF l.handlers = <<>>
             THEN [l EXCEPT !.handlers = <<StreamHandler("stderr")>>]
             ELSE l
    IN  IF level >= c.level
        THEN handle(c, Record(level, msg, file, c.calls), Len(c.handlers))
        ELSE c

\* The ticks of the clock in a second.
TicksPerSecond == 2

\* datetime.now().strftime('%Y%m%d_%H%M%S') names the log file by the second:
\* what the clock shows below the second is dropped.
log_file_at(now) == now \div TicksPerSecond

\* setup_logging(log_level): the handlers are built (the file handler opens its
\* file) before basicConfig decides whether to install them.
setup_logging(l, log_level) ==
    LET log_file == log_file_at(l.now)
        opened == [l EXCEPT !.files = open_append(@, log_file), !.calls = @ + 1]
        configured ==
            basicConfig(opened, log_level,
                        <<FileHandler(log_file), StreamHandler("stdout")>>)
    IN  emit(configured, INFO, "Log file created", log_file)

----------------------------------------------------------------------------
(* clear_output_folder *)

extensions_to_remove ==
    << <<".", "p", "n", "g">>, <<".", "j", "p", "g">>, <<".", "j", "p", "e", "g">>,
       <<".", "p", "d", "f">>, <<".", "P", "N", "G">>, <<".", "J", "P", "G">>,
       <<".", "J", "P", "E", "G">>, <<".", "P", "D", "F">> >>

ReadmeName == <<"r", "e", "a", "d", "m", "e", ".", "m", "d">>

\* A choice of entries that compares the name with the listed extensions as
\* they are spelled.
to_remove_as_spelled(f, output_folder, keep_readme) ==
    {filename \in listdir(f, output_folder) :
        /\ ~isdir(f, join(output_folder, filename))
        /\ ~(keep_readme /\ str_lower(filename) = ReadmeName)
        /\ \E i \in 1..Len(extensions_to_remove) :
              endswith(filename, extensions_to_remove[i])}

\* The entries clear_output_folder calls os.remove on.
to_remove(f, output_folder, keep_readme) ==
    {filename \in listdir(f, output_folder) :
        /\ ~isdir(f, join(output_folder, filename))
        /\ ~(keep_readme /\ str_lower(filename) = ReadmeName)
        /\ \E i \in 1..Len(extensions_to_remove) :
              endswith(str_lower(filename), str_lower(extensions_to_remove[i]))}

\* os.remove(path)
remove(f, path) == [q \in DOMAIN f \ {path} |-> f[q]]

\* The file system with the given paths removed.
remove_all(f, paths) == [q \in DOMAIN f \ paths |-> f[q]]

\* A clearing that counts the files but leaves them where they are.
clear_output_folder_leaves_files(f, output_folder, keep_readme, failing) ==
    IF ~exists(f, output_folder)
    THEN [fs |-> f, removed_count |-> -1]
    ELSE [fs |-> f,
          removed_count |-> Cardinality(to_remove(f, output_folder, keep_readme) \ failing)]

\* A clearing that a failing os.remove ends: the exception leaves it and no
\* file is removed.
clear_output_folder_aborting(f, output_folder, keep_readme, failing) ==
    IF ~exists(f, output_folder) \/ failing # {}
    THEN [fs |-> f, removed_count |-> -1]
    ELSE LET removed == to_remove(f, output_folder, keep_readme)
         IN  [fs |-> remove_all(f, {join(output_folder, n) : n \in removed}),
              removed_count |-> Cardinality(removed)]

\* clear_output_folder(output_folder, keep_readme) where os.remove raises for
\* the names in `failing` and succeeds for the others: the file system
\* afterwards and removed_count, -1 when the folder does not exist.
clear_output_folder(f, output_folder, keep_readme, failing) ==
    IF ~exists(f, output_folder)
    THEN [fs |-> f, removed_count |-> -1]
    ELSE LET removed == to_remove(f, output_folder, keep_readme) \ failing
         IN  [fs |-> remove_all(f, {join(output_folder, n) : n \in removed}),
              removed_count |-> Cardinality(removed)]

RECURSIVE warn_each(_, _)
\* One warning per file that could not be removed.
warn_each(l, n) ==
    IF n = 0 THEN l ELSE emit(warn_each(l, n - 1), WARNING, "Could not remove", 0)

\* The report clear_output_folder logs at the end, "" when it returned early.
clear_report(result) ==
    IF result.removed_count = -1 THEN ""
    ELSE IF result.removed_count > 0 THEN "Cleared file(s) from output folder"
    ELSE "Output folder is already clean"

\* What clear_output_folder logs.
clear_output_log(l, result, nfailing) ==
    IF result.removed_count = -1 THEN l
    ELSE emit(warn_each(l, nfailing), INFO, clear_report(result), 0)

----------------------------------------------------------------------------
(* The per-file conversions *)

PDF == <<"P", "D", "F">>

JPG == <<"J", "P", "G">>

JPEG == <<"J", "P", "E", "G">>

PNG == <<"P", "N", "G">>

\* What Image.open and the writers may do for one job: succeed, fail to decode,
\* fail to write leaving the output path as it was, or fail to write leaving a
\* partial file.
Outcomes == {"ok", "decode_error", "write_error", "write_error_partial"}

\* The outcomes possible for a job: a directory cannot be opened as an image,
\* and nothing can be written at a path that is a directory.
possible(f, image_path, output_path) ==
    {o \in Outcomes :
        /\ (o # "decode_error" => exists(f, image_path) /\ ~isdir(f, image_path))
        /\ (o \in {"ok", "write_error_partial"} => ~isdir(f, output_path))}

NoImage == [ok |-> FALSE, of |-> <<>>]

Converted(image_path, format) == [kind |-> "conv", of |-> image_path, fmt |-> format]

Partial(image_path, format) == [kind |-> "partial", of |-> image_path, fmt |-> format]

\* open(path, "wb") ... write: the path holds the data afterwards.
write(f, path, data) ==
    [q \in DOMAIN f \cup {path} |-> IF q = path THEN File(data) ELSE f[q]]

\* convert_image_to_format: the raster, or (None, None) when anything raised.
convert_image_to_format(image_path, output_format, outcome) ==
    IF outcome = "decode_error" THEN NoImage ELSE [ok |-> TRUE, of |-> image_path]

\* save_as_image: JPEG for JPG/JPEG, PNG for everything else.
save_as_image(f, img, output_path, output_format, outcome) ==
    LET format == IF str_upper(output_format) \in {JPG, JPEG} THEN "JPEG" ELSE "PNG"
    IN  CASE outcome = "ok" ->
               [fs |-> write(f, output_path, Converted(img.of, format)), success |-> TRUE]
          [] outcome = "write_error_partial" ->
               [fs |-> write(f, output_path, Partial(img.of, format)), success |-> FALSE]
          [] OTHER -> [fs |-> f, success |-> FALSE]

\* convert_image_to_pdf: decodes the source itself, then writes the page.
convert_image_to_pdf(f, image_path, output_path, outcome) ==
    CASE outcome = "ok" ->
           [fs |-> write(f, output_path, Converted(image_path, "PDF")), success |-> TRUE]
      [] outcome = "write_error_partial" ->
           [fs |-> write(f, output_path, Partial(image_path, "PDF")), success |-> FALSE]
      [] OTHER -> [fs |-> f, success |-> FALSE]

\* The output file extension convert_images chooses.
output_ext(output_format) ==
    IF str_upper(output_format) = PDF THEN <<".", "p", "d", "f">>
    ELSE IF str_upper(output_format) \in {JPG, JPEG} THEN <<".", "j", "p", "g">>
    ELSE <<".", "p", "n", "g">>

\* The output path of a job.
output_path_of(image_file, output_folder, output_format) ==
    join(output_folder, splitext(basename(image_file))[1] \o output_ext(output_format))

\* One pass through the body of the loop of convert_images.
convert_one(f, image_file, output_folder, output_format, outcome) ==
    LET output_path == output_path_of(image_file, output_folder, output_format)
    IN  IF str_upper(output_format) = PDF
        THEN convert_image_to_pdf(f, image_file, output_path, outcome)
        ELSE LET img == convert_image_to_format(image_file, output_format, outcome)
             IN  IF img.ok
                 THEN save_as_image(f, img, output_path, output_format, outcome)
                 ELSE [fs |-> f, success |-> FALSE]

\* What the conversions log for a job.
convert_log(l, output_format, outcome) ==
    LET p == emit(l, INFO, "Processing", 0)
    IN  IF str_upper(output_format) = PDF
        THEN IF outcome = "ok" THEN emit(p, INFO, "Saved PDF file", 0)
             ELSE emit(p, ERROR, "Failed to convert to PDF", 0)
        ELSE IF outcome = "decode_error" THEN emit(p, ERROR, "Failed to convert", 0)
             ELSE IF outcome = "ok" THEN emit(p, INFO, "Saved file", 0)
             ELSE emit(p, ERROR, "Failed to save", 0)

NoStats == [total |-> -1, successful |-> -1, failed |-> -1]

----------------------------------------------------------------------------
(* convert_images, step by step *)

\* A flag that spares the output folder when the target is PDF.
clear_output_unless_pdf(a) == ~a.no_clear /\ str_upper(a.format) # PDF

\* main: clear_output=not args.no_clear
clear_output(a) == ~a.no_clear

\* os.makedirs(output_folder, exist_ok=True) succeeds: the folder is there, or
\* is created.
MakedirsOk ==
    /\ pc = "makedirs"
    /\ ~exists(fs, args.output) \/ isdir(fs, args.output)
    /\ fs' = IF exists(fs, args.output) THEN fs
             ELSE [q \in DOMAIN fs \cup {args.output} |->
                      IF q = args.output THEN Dir ELSE fs[q]]
    /\ lg' = emit(lg, INFO, "Output folder", 0)
    /\ pc' = IF clear_output(args) THEN "clear" ELSE "discover"
    /\ UNCHANGED <<apiVars, normcase, image_files, runVars>>

\* os.makedirs raises: the path is a plain file, or the folder cannot be
\* created.  The exception leaves convert_images.
MakedirsRaises ==
    /\ pc = "makedirs"
    /\ ~isdir(fs, args.output)
    /\ raised' = TRUE
    /\ pc' = "except"
    /\ UNCHANGED <<apiVars, fs, normcase, image_files, args, fs0, scanned, idx, successful,
                   failed, attempts, stats, exitCode, lg>>

\* if clear_output: clear_output_folder(output_folder)
ClearOutput ==
    /\ pc = "clear"
    /\ \E failing \in SUBSET to_remove(fs, args.output, TRUE) :
          LET result == clear_output_folder(fs, args.output, TRUE, failing)
          IN  /\ fs' = result.fs
              /\ lg' = clear_output_log(lg, result, Cardinality(failing))
    /\ pc' = "discover"
    /\ UNCHANGED <<apiVars, normcase, image_files, runVars>>

\* image_files = get_image_files(source_folder), and the early return when
\* nothing was found.
Discover ==
    /\ pc = "discover"
    /\ LET found == get_image_files(fs, args.source, normcase)
       IN  /\ image_files' = found
           /\ scanned' = glob_names(fs, args.source)
           /\ IF found = <<>>
              THEN /\ lg' = emit(lg, WARNING, "No supported image files found", 0)
                   /\ stats' = [total |-> 0, successful |-> 0, failed |-> 0]
                   /\ pc' = "summary"
                   /\ UNCHANGED <<apiVars, idx, successful, failed>>
              ELSE /\ lg' = emit(lg, INFO, "Found image file(s) to convert", 0)
                   /\ stats' = stats
                   /\ idx' = 1
                   /\ successful' = 0
                   /\ failed' = 0
                   /\ pc' = "loop"
    /\ UNCHANGED <<apiVars, fs, normcase, args, fs0, attempts, raised, exitCode>>

\* A tally that forgets the jobs that failed.
tally_successes_only(counts, success) ==
    IF success THEN [counts EXCEPT !.successful = @ + 1] ELSE counts

\* The counters after a job.
tally(counts, success) ==
    IF success
    THEN [counts EXCEPT !.successful = @ + 1]
    ELSE [counts EXCEPT !.failed = @ + 1]

\* A loop that stops at the first job that fails.
next_index_break_on_failure(i, files, success) ==
    IF success THEN i + 1 ELSE Len(files) + 1

\* Where the loop goes after the job at index i: to the next file, whatever
\* the job's outcome.
next_index(i, files, success) == i + 1

\* The body of "for image_file in image_files", for the file at idx.
ConvertOne ==
    /\ pc = "loop"
    /\ idx <= Len(image_files)
    /\ LET image_file == image_files[idx]
           output_path == output_path_of(image_file, args.output, args.format)
       IN  \E outcome \in possible(fs, image_file, output_path) :
              LET r == convert_one(fs, image_file, args.output, args.format, outcome)
                  c == tally([successful |-> successful, failed |-> failed], r.success)
              IN  /\ fs' = r.fs
                  /\ lg' = convert_log(lg, args.format, outcome)
                  /\ successful' = c.successful
                  /\ failed' = c.failed
                  /\ attempts' = Append(attempts,
                        [file |-> image_file, output_path |-> output_path,
                         outcome |-> outcome, success |-> r.success])
                  /\ idx' = next_index(idx, image_files, r.success)
    /\ UNCHANGED <<apiVars, normcase, pc, image_files, args, fs0, scanned, stats, raised, exitCode>>

\* The dict convert_images returns after the loop.
result_stats(files, nsuccessful, nfailed) ==
    [total |-> Len(files), successful |-> nsuccessful, failed |-> nfailed]

\* return {'total': ..., 'successful': ..., 'failed': ...}
ReturnStats ==
    /\ pc = "loop"
    /\ idx > Len(image_files)
    /\ stats' = result_stats(image_files, successful, failed)
    /\ pc' = "summary"
    /\ UNCHANGED <<apiVars, fs, normcase, image_files, args, fs0, scanned, idx, successful,
                   failed, attempts, raised, exitCode, lg>>

----------------------------------------------------------------------------
(* main *)

\* log_file = setup_logging(log_level), the first thing main does after
\* parsing the command line.
MainSetupLogging ==
    /\ pc = "main"
    /\ lg' = setup_logging(lg, IF args.verbose THEN DEBUG ELSE INFO)
    /\ pc' = "validate"
    /\ UNCHANGED <<apiVars, fs, normcase, image_files, runVars>>

\* A range check that turns 100 away.
quality_invalid_off_by_one(quality) == quality < 1 \/ quality >= 100

\* args.quality < 1 or args.quality > 100
quality_invalid(quality) == quality < 1 \/ quality > 100

\* The validation main performs: the error it logs, "" when all checks pass.
validation_error(f, a) ==
    IF quality_invalid(a.quality) THEN "Quality must be between 1 and 100"
    ELSE IF ~exists(f, a.source) THEN "Source folder does not exist"
    ELSE IF ~isdir(f, a.source) THEN "Source path is not a directory"
    ELSE ""

\* A check fails: the error is logged and sys.exit(1) ends the process.
MainValidationFails ==
    /\ pc = "validate"
    /\ validation_error(fs, args) # ""
    /\ lg' = emit(lg, ERROR, validation_error(fs, args), 0)
    /\ exitCode' = 1
    /\ pc' = "exit"
    /\ UNCHANGED <<apiVars, fs, normcase, image_files, args, fs0, scanned, idx, successful,
                   failed, attempts, stats, raised>>

\* All checks pass: the configuration is logged and convert_images is called.
MainValidationPasses ==
    /\ pc = "validate"
    /\ validation_error(fs, args) = ""
    /\ lg' = emit(lg, INFO, "HEIC Image Converter", 0)
    /\ pc' = "makedirs"
    /\ UNCHANGED <<apiVars, fs, normcase, image_files, runVars>>

\* A status that treats an empty source directory as an error.
exit_status_empty_fails(st) == IF st.failed > 0 \/ st.total = 0 THEN 1 ELSE 0

\* The status main ends with once convert_images has returned.
exit_status(st) == IF st.failed > 0 THEN 1 ELSE 0

\* The summary, and sys.exit(1) when a conversion failed.
MainSummary ==
    /\ pc = "summary"
    /\ lg' = emit(lg, INFO, "Conversion Summary", 0)
    /\ exitCode' = exit_status(stats)
    /\ pc' = "exit"
    /\ UNCHANGED <<apiVars, fs, normcase, image_files, args, fs0, scanned, idx, successful,
                   failed, attempts, stats, raised>>

\* except Exception: the error is logged and sys.exit(1) ends the process.
MainExcept ==
    /\ pc = "except"
    /\ lg' = emit(lg, ERROR, "Unexpected error", 0)
    /\ exitCode' = 1
    /\ pc' = "exit"
    /\ UNCHANGED <<apiVars, fs, normcase, image_files, args, fs0, scanned, idx, successful,
                   failed, attempts, stats, raised>>

----------------------------------------------------------------------------
(* A run of the command line *)

\* The most entries the source directory holds.
MaxSrc == 2

\* The most entries the output directory holds before the run.
MaxOut == 2

\* Names the source directory may hold as plain files.
RunNames ==
    { <<"a", ".", "h", "e", "i", "c">>, <<"a", ".", "j", "p", "g">>,
      <<"b", ".", "P", "N", "G">>,      <<"c", ".", "g", "i", "f">> }

\* Names the output directory may hold as plain files before the run.
OutNames ==
    { <<"a", ".", "p", "n", "g">>, <<"z", ".", "P", "D", "F">>,
      <<"R", "E", "A", "D", "M", "E", ".", "m", "d">>, <<"n", ".", "t", "x", "t">> }

\* A path that exists and is a plain file, and a path that does not exist.
PlainFile == <<"f">>

Missing == <<"x">>

FormatChoices == { <<"p", "n", "g">>, <<"J", "P", "G">>, <<"p", "d", "f">> }

QualityChoices == {0, 1, 100, 101}

\* The state of everything a run of convert_images and main keeps, before the run.
IdleRun ==
    /\ image_files = <<>>
    /\ scanned = {}
    /\ idx = 0
    /\ successful = 0
    /\ failed = 0
    /\ attempts = <<>>
    /\ stats = NoStats
    /\ raised = FALSE
    /\ exitCode = -1

NoPicture == [mode |-> "none", px |-> <<>>, palette |-> <<>>, transparency |-> <<>>]

\* The state of what only direct callers of the library operations use.
\* The state of what only setup.py and example_usage.py use.
IdleTools ==
    /\ python = <<3, 11>>
    /\ importable = {}
    /\ missing_packages = <<>>
    /\ steps = <<>>
    /\ choice = <<>>
    /\ scenarios = <<>>

IdleApi ==
    /\ clear_calls = <<>>
    /\ source_img = NoPicture
    /\ raster = NoPicture
    /\ returned_logs = <<>>
    /\ IdleTools

NoArgs ==
    [source |-> <<>>, output |-> <<>>, format |-> <<>>, quality |-> 0,
     no_clear |-> FALSE, verbose |-> FALSE]

Init ==
    /\ normcase = FALSE
    /\ \E srcNames \in SUBSET (RunNames \cup {DirNamedLikeImage}) :
       \E outNames \in SUBSET OutNames :
       \E outKind \in {"missing", "dir", "file"} :
          /\ Cardinality(srcNames) <= MaxSrc
          /\ Cardinality(outNames) <= MaxOut
          /\ outKind # "dir" => outNames = {}
          /\ fs = MakeFs(
                   {join(SrcDir, n) : n \in srcNames \ {DirNamedLikeImage}}
                      \cup {join(OutDir, n) : n \in outNames}
                      \cup {PlainFile}
                      \cup (IF outKind = "file" THEN {OutDir} ELSE {}),
                   {SrcDir}
                      \cup {join(SrcDir, n) : n \in srcNames \cap {DirNamedLikeImage}}
                      \cup (IF outKind = "dir" THEN {OutDir} ELSE {}))
    /\ fs0 = fs
    /\ args \in [source : {SrcDir, PlainFile, Missing},
                 output : {OutDir, SrcDir},
                 format : FormatChoices,
                 quality : QualityChoices,
                 no_clear : BOOLEAN,
                 verbose : {FALSE}]
    /\ lg = FreshLogging(1)
    /\ pc = "main"
    /\ IdleRun
    /\ IdleApi

Next ==
    \/ MainSetupLogging
    \/ MainValidationFails
    \/ MainValidationPasses
    \/ MakedirsOk
    \/ MakedirsRaises
    \/ ClearOutput
    \/ Discover
    \/ ConvertOne
    \/ ReturnStats
    \/ MainSummary
    \/ MainExcept

Spec == Init /\ [][Next]_vars

----------------------------------------------------------------------------
(* Claims about a run *)

\* convert_images has returned its statistics.
Returned == stats # NoStats

\* The listing discovery saw, as a directory of its own.
ScannedFs == MakeFs({join(args.source, n) : n \in scanned}, {args.source})

Failures == {k \in 1..Len(attempts) : ~attempts[k].success}

Successes == {k \in 1..Len(attempts) : attempts[k].success}

\* C1: when convert_images returns (main is about to print its summary),
\* successful + failed = total, and total is the number of paths
\* get_image_files returns for the source directory (as discovery listed it,
\* which is also how it still is when the output directory is another
\* directory).
C1_StatsAddUp ==
    (pc = "summary" /\ Returned) =>
        /\ stats.successful + stats.failed = stats.total
        /\ stats.total = Len(get_image_files(ScannedFs, args.source, normcase))
        /\ args.output # args.source =>
              stats.total = Len(get_image_files(fs, args.source, normcase))

\* A run has returned with two or more files found, some converted and some not.
C1_Witness ==
    /\ Returned
    /\ stats.total >= 2
    /\ stats.successful >= 1
    /\ stats.failed >= 1

\* C2: the jobs attempted are the discovered files, each once, in sorted
\* order, each at the output path its own name gives, whatever happened to the
\* files before it; each failure is one failed job, each success one
\* successful job; no failure of a job raises out of convert_images; and when
\* convert_images returns every discovered file has been attempted.
C2_EveryFileAttemptedOnce ==
    /\ Len(attempts) <= Len(image_files)
    /\ \A k \in 1..Len(attempts) :
          /\ attempts[k].file = image_files[k]
          /\ attempts[k].output_path =
                output_path_of(image_files[k], args.output, args.format)
    /\ StrictlyAscending(image_files)
    /\ pc = "loop" =>
          /\ failed = Cardinality(Failures)
          /\ successful = Cardinality(Successes)
    /\ attempts # <<>> => ~raised
    /\ Returned =>
          /\ Len(attempts) = Len(image_files)
          /\ stats.failed = Cardinality(Failures)
          /\ stats.successful = Cardinality(Successes)

\* A run has returned after a first job that failed and a later one that
\* succeeded.
C2_Witness ==
    /\ Returned
    /\ Len(attempts) >= 2
    /\ ~attempts[1].success
    /\ attempts[2].success

\* The command line passes main's validation.
ValidCommandLine ==
    /\ args.quality >= 1
    /\ args.quality <= 100
    /\ isdir(fs0, args.source)

\* C3: a run whose validation passes ends with status 1 if and only if a
\* conversion failed or an exception escaped convert_images, and with status 0
\* otherwise, also when no file was found.
C3_ExitStatus ==
    (pc = "exit" /\ ValidCommandLine) =>
        /\ exitCode \in {0, 1}
        /\ exitCode = 1 <=> (Failures # {} \/ raised)
        /\ (Returned /\ stats.total = 0) => exitCode = 0

\* A valid run found no supported file and ended with status 0.
C3_Witness ==
    /\ pc = "exit"
    /\ ValidCommandLine
    /\ Returned
    /\ stats.total = 0
    /\ exitCode = 0

\* A log file holds a record of the given level.
Logged(level) ==
    \E f \in DOMAIN lg.files :
        \E i \in 1..Len(lg.files[f]) : lg.files[f][i].level = level

\* The root logger writes to a log file.
LoggingConfigured ==
    \E i \in 1..Len(lg.handlers) : lg.handlers[i].kind = "file"

\* C4: logging is configured before validation; a run with quality below 1 or
\* above 100 (any format), or whose source path is missing or not a directory,
\* ends with status 1 with the error logged, without convert_images being
\* called: nothing in the file system has changed and no file was converted;
\* quality 1 and quality 100 pass validation.
C4_ValidationBeforeAnyWork ==
    /\ pc # "main" => LoggingConfigured
    /\ (pc = "exit" /\ ~ValidCommandLine) =>
          /\ exitCode = 1
          /\ Logged(ERROR)
          /\ fs = fs0
          /\ attempts = <<>>
          /\ ~Returned
          /\ ~raised
    /\ (pc = "exit" /\ args.quality \in {1, 100} /\ isdir(fs0, args.source)) =>
          (Returned \/ raised)

\* A run with quality 101 has ended, with images waiting in the source
\* directory and files that clearing would remove in the output directory.
C4_Witness ==
    /\ pc = "exit"
    /\ args.quality = 101
    /\ args.source = SrcDir
    /\ args.output = OutDir
    /\ ~args.no_clear
    /\ get_image_files(fs, SrcDir, normcase) # <<>>
    /\ to_remove(fs, OutDir, TRUE) # {}
    /\ exitCode = 1

\* The format name of the data a run writes.
TargetFormat ==
    IF str_upper(args.format) = PDF THEN "PDF"
    ELSE IF str_upper(args.format) \in {JPG, JPEG} THEN "JPEG"
    ELSE "PNG"

\* The plain files with a supported extension the source directory held
\* before the run.
SourceImages ==
    {join(args.source, n) : n \in
        {m \in listdir(fs0, args.source) :
            ~isdir(fs0, join(args.source, m)) /\ HasSupportedExt(m)}}

SameBaseName(p, q) == splitext(basename(p))[1] = splitext(basename(q))[1]

\* The path of a set of paths that sorts last.
LastOf(paths) == CHOOSE p \in paths : \A q \in paths \ {p} : str_lt(q, p)

AttemptsOn(p) == {k \in 1..Len(attempts) : attempts[k].file = p}

----------------------------------------------------------------------------
(* Discovery on its own: get_image_files called on a directory *)

\* The most direct entries a source directory holds.
MaxEntries == 3

\* Names a source directory may hold as plain files.
DiscoveryNames ==
    { <<"a", ".", "h", "e", "i", "c">>, <<"a", ".", "H", "E", "I", "C">>,
      <<"a", ".", "j", "p", "g">>,      <<"b", ".", "P", "N", "G">>,
      <<"b", ".", "J", "p", "g">>,      <<"c", ".", "j", "p", "e", "g">>,
      <<"g", ".", "H", "E", "I", "F">>, <<".", "h", ".", "p", "n", "g">>,
      <<"e", ".", "g", "i", "f">>,      <<"f", ".", "t", "x", "t">>,
      <<"p", "n", "g">> }

\* Names the subdirectory of the source directory may hold.
NestedNames == { <<"n", ".", "p", "n", "g">>, <<"m", ".", "g", "i", "f">> }

InitDiscovery ==
    /\ normcase \in BOOLEAN
    /\ \E names \in SUBSET (DiscoveryNames \cup {DirNamedLikeImage}) :
       \E nested \in SUBSET NestedNames :
       \E layout \in {"missing", "flat", "subdir"} :
          /\ Cardinality(names) <= MaxEntries
          /\ normcase => CaseDistinct(names)
          /\ layout # "subdir" => nested = {}
          /\ layout = "missing" => names = {}
          /\ fs = MakeFs(
                   {join(SrcDir, n) : n \in names \ {DirNamedLikeImage}}
                      \cup {join(SubDir, n) : n \in nested},
                   (IF layout = "missing" THEN {} ELSE {SrcDir})
                      \cup {join(SrcDir, n) : n \in names \cap {DirNamedLikeImage}}
                      \cup (IF layout = "subdir" THEN {SubDir} ELSE {}))
    /\ pc = "call"
    /\ IdleRun
    /\ IdleApi
    /\ args = NoArgs
    /\ fs0 = fs
    /\ lg = FreshLogging(1)

\* image_files = get_image_files(source_folder)
CallGetImageFiles ==
    /\ pc = "call"
    /\ image_files' = get_image_files(fs, SrcDir, normcase)
    /\ pc' = "returned"
    /\ UNCHANGED <<apiVars, fsVars, runVars, lg>>

NextDiscovery == CallGetImageFiles

SpecDiscovery == InitDiscovery /\ [][NextDiscovery]_vars

----------------------------------------------------------------------------
(* Claims about discovery *)

\* C5: every plain file with a supported extension placed directly in the
\* directory is returned by get_image_files exactly once, and the result is
\* sorted ascending by full path.
C5_EverySupportedFileOnceSorted ==
    pc = "returned" =>
        /\ \A name \in listdir(fs, SrcDir) :
              (~isdir(fs, join(SrcDir, name)) /\ HasSupportedExt(name))
                 => Occurrences(image_files, join(SrcDir, name)) = 1
        /\ StrictlyAscending(image_files)

\* C6: get_image_files never returns a file with an unsupported extension and
\* never returns a file located in a subdirectory of the source directory.
C6_NoUnsupportedNoNested ==
    pc = "returned" =>
        \A i \in 1..Len(image_files) :
            /\ dirname(image_files[i]) = SrcDir
            /\ HasSupportedExt(basename(image_files[i]))

\* Discovery has returned something from a directory that also holds a file
\* with an unsupported extension and a subdirectory with an image in it.
C6_Witness ==
    /\ pc = "returned"
    /\ image_files # <<>>
    /\ \E name \in listdir(fs, SrcDir) :
          ~isdir(fs, join(SrcDir, name)) /\ ~HasSupportedExt(name)
    /\ \E name \in listdir(fs, SubDir) : HasSupportedExt(name)

----------------------------------------------------------------------------
(* Clearing on its own: a caller runs clear_output_folder again and again *)

\* The most entries the output directory holds.
MaxClearEntries == 3

\* The most calls of clear_output_folder the caller makes.
MaxClearCalls == 2

\* Names the output directory may hold as plain files.
ClearNames ==
    { <<"a", ".", "p", "n", "g">>, <<"b", ".", "J", "P", "G">>,
      <<"c", ".", "J", "p", "e", "g">>, <<"d", ".", "p", "d", "f">>,
      <<"R", "E", "A", "D", "M", "E", ".", "m", "d">>, <<"n", ".", "t", "x", "t">>,
      <<".", "p", "n", "g">> }

InitClear ==
    /\ normcase = FALSE
    /\ \E names \in SUBSET (ClearNames \cup {DirNamedLikeImage}) :
       \E present \in BOOLEAN :
          /\ Cardinality(names) <= MaxClearEntries
          /\ ~present => names = {}
          /\ fs = MakeFs(
                   {join(OutDir, n) : n \in names \ {DirNamedLikeImage}},
                   (IF present THEN {OutDir} ELSE {})
                      \cup {join(OutDir, n) : n \in names \cap {DirNamedLikeImage}})
    /\ fs0 = fs
    /\ args = NoArgs
    /\ lg = setup_logging(FreshLogging(1), INFO)
    /\ pc = "clear_api"
    /\ IdleRun
    /\ IdleApi

\* clear_output_folder(output_folder, keep_readme), with os.remove failing for
\* any of the files it is called on.
CallClearOutputFolder ==
    /\ pc = "clear_api"
    /\ Len(clear_calls) < MaxClearCalls
    /\ \E keep_readme \in BOOLEAN :
       \E failing \in SUBSET to_remove(fs, OutDir, keep_readme) :
          LET result == clear_output_folder(fs, OutDir, keep_readme, failing)
          IN  /\ fs' = result.fs
              /\ lg' = clear_output_log(lg, result, Cardinality(failing))
              /\ clear_calls' = Append(clear_calls,
                    [removed_count |-> result.removed_count,
                     keep_readme |-> keep_readme,
                     failing |-> failing,
                     report |-> clear_report(result),
                     before |-> fs,
                     after |-> result.fs])
    /\ UNCHANGED <<normcase, pc, image_files, runVars, source_img, raster, returned_logs,
                   toolVars>>

NextClear == CallClearOutputFolder

SpecClear == InitClear /\ [][NextClear]_vars

----------------------------------------------------------------------------
(* Pillow rasters, pixel by pixel, as convert_image_to_format handles them *)
(* A raster is [mode, px, palette, transparency]: px is the sequence of its  *)
(* pixels, a pixel the sequence of its band values; a palette image's pixel  *)
(* starts with a 0-based palette index; transparency gives the alpha of each *)
(* palette entry (255 where the file declares none).                         *)

\* The most pixels an image has.
MaxPixels == 1

White == <<255, 255, 255>>

\* Image.new(mode, size, color)
Image_new(mode, size, color) ==
    [mode |-> mode, px |-> [i \in 1..size |-> color],
     palette |-> <<>>, transparency |-> <<>>]

\* The rounding division by 255 of Pillow's blending.
DIV255(a) ==
    LET tmp == a + 128
    IN  ((tmp \div 256) + tmp) \div 256

\* A band of the background blended with a band of the pasted image.
BLEND(mask, in1, in2) == DIV255(in1 * (255 - mask) + in2 * mask)

\* img.convert(mode), for the conversions convert_image_to_format asks for.
convert(img, mode) ==
    LET entry(p) == img.palette[p[1] + 1]
        to(p) ==
            CASE img.mode = "P" /\ mode = "RGBA" ->
                   entry(p) \o <<img.transparency[p[1] + 1]>>
              [] img.mode = "P" /\ mode = "RGB" -> entry(p)
              [] img.mode = "PA" /\ mode = "RGB" -> entry(p)
              [] img.mode \in {"L", "LA"} /\ mode = "RGB" -> <<p[1], p[1], p[1]>>
              [] img.mode = "RGBA" /\ mode = "RGB" -> SubSeq(p, 1, 3)
              [] OTHER -> p
    IN  [mode |-> mode, px |-> [i \in 1..Len(img.px) |-> to(img.px[i])],
         palette |-> <<>>, transparency |-> <<>>]

\* img.split()[-1]: the last band, as a greyscale image.
split_last(img) ==
    [mode |-> "L",
     px |-> [i \in 1..Len(img.px) |-> <<img.px[i][Len(img.px[i])]>>],
     palette |-> <<>>, transparency |-> <<>>]

\* No mask given to paste.
None == NoPicture

\* background.paste(img, mask=mask) on an RGB background: the colour bands of
\* img replace the background, blended by the mask where there is one.
paste(background, img, mask) ==
    LET colour(p) == IF img.mode = "LA" THEN <<p[1], p[1], p[1]>> ELSE SubSeq(p, 1, 3)
        blended(i) ==
            IF mask = None
            THEN colour(img.px[i])
            ELSE [b \in 1..3 |->
                     BLEND(mask.px[i][1], background.px[i][b], colour(img.px[i])[b])]
    IN  [background EXCEPT !.px = [i \in 1..Len(background.px) |-> blended(i)]]

\* The mode normalisation of convert_image_to_format: the image it returns for
\* the image Image.open gave.
normalise_mode(img, output_format) ==
    IF str_upper(output_format) = JPG \/ str_upper(output_format) = JPEG
    THEN IF img.mode \in {"RGBA", "LA", "P"}
         THEN LET background == Image_new("RGB", Len(img.px), White)
                  img2 == IF img.mode = "P" THEN convert(img, "RGBA") ELSE img
              IN  paste(background, img2,
                        IF img2.mode \in {"RGBA", "LA"} THEN split_last(img2) ELSE None)
         ELSE IF img.mode # "RGB" THEN convert(img, "RGB") ELSE img
    ELSE img

\* Band values and alpha values of the source images.
Levels == {0, 200, 255}
Alphas == {0, 128, 255}

\* The palette of the palette images: one coloured entry, one white.
Palettes == { << <<200, 0, 0>>, <<255, 255, 255>> >> }

\* The modes Image.open gives for the files of the model.
Modes == {"RGB", "RGBA", "L", "LA", "P", "PA"}

PixelsOf(mode) ==
    CASE mode = "RGB" -> [1..3 -> Levels]
      [] mode = "RGBA" -> {c \o <<a>> : c \in {<<0, 200, 255>>, <<200, 200, 200>>}, a \in Alphas}
      [] mode = "L" -> [1..1 -> Levels]
      [] mode = "LA" -> {<<l, a>> : l \in {0, 200}, a \in Alphas}
      [] mode = "P" -> [1..1 -> {0, 1}]
      [] mode = "PA" -> {<<i, a>> : i \in {0, 1}, a \in Alphas}

ImageFormatChoices == {<<"p", "n", "g">>, JPG, <<"j", "p", "e", "g">>}

InitMode ==
    /\ normcase = FALSE
    /\ fs = MakeFs({join(SrcDir, <<"a", ".", "t", "i", "f">>)}, {SrcDir})
    /\ fs0 = fs
    /\ \E output_format \in ImageFormatChoices :
          args = [NoArgs EXCEPT !.source = join(SrcDir, <<"a", ".", "t", "i", "f">>),
                                !.format = output_format]
    /\ lg = FreshLogging(1)
    /\ pc = "convert_api"
    /\ IdleRun
    /\ clear_calls = <<>>
    /\ returned_logs = <<>>
    /\ raster = NoPicture
    /\ IdleTools
    /\ \E mode \in Modes :
       \E size \in 1..MaxPixels :
       \E px \in [1..size -> PixelsOf(mode)] :
       \E palette \in Palettes :
       \E transparency \in [1..2 -> {0, 255}] :
          /\ mode # "P" => transparency = <<255, 255>>
          /\ source_img =
                [mode |-> mode, px |-> px,
                 palette |-> IF mode \in {"P", "PA"} THEN palette ELSE <<>>,
                 transparency |-> IF mode \in {"P", "PA"} THEN transparency ELSE <<>>]

\* convert_image_to_format(image_path, output_format): Image.open raises, or
\* the decoded image is normalised and returned.
CallConvertImageToFormat ==
    /\ pc = "convert_api"
    /\ \E decodes \in BOOLEAN :
          LET loading == emit(lg, INFO, "Loading image file", 0)
          IN  IF decodes
              THEN /\ raster' = normalise_mode(source_img, args.format)
                   /\ lg' = emit(loading, INFO, "Successfully loaded image", 0)
              ELSE /\ raster' = NoPicture
                   /\ lg' = emit(loading, ERROR, "Failed to convert", 0)
    /\ pc' = "converted"
    /\ UNCHANGED <<fs, normcase, image_files, runVars, clear_calls, source_img,
                   returned_logs, toolVars>>

NextMode == CallConvertImageToFormat

SpecMode == InitMode /\ [][NextMode]_vars

\* The alpha of pixel i of the source: its alpha band, or the transparency of
\* its palette entry; 255 for a mode with neither.
SourceAlpha(i) ==
    CASE source_img.mode = "RGBA" -> source_img.px[i][4]
      [] source_img.mode \in {"LA", "PA"} -> source_img.px[i][2]
      [] source_img.mode = "P" -> source_img.transparency[source_img.px[i][1] + 1]
      [] OTHER -> 255

\* C9: for a JPEG-family target the returned raster is RGB with three bands,
\* whatever the source mode, and every pixel that is fully transparent in the
\* source is white in it.
C9_JpegRasterRgbAndWhiteWhereTransparent ==
    (/\ pc = "converted"
     /\ raster # NoPicture
     /\ str_upper(args.format) \in {JPG, JPEG}) =>
        /\ raster.mode = "RGB"
        /\ Len(raster.px) = Len(source_img.px)
        /\ \A i \in 1..Len(raster.px) :
              /\ Len(raster.px[i]) = 3
              /\ SourceAlpha(i) = 0 => raster.px[i] = White

----------------------------------------------------------------------------
(* Logging on its own: a process calls setup_logging and logs, as the seconds *)
(* of the clock go by                                                          *)

\* The most calls of setup_logging the process makes.
MaxSetupCalls == 2

\* The last second of the clock.
MaxClock == 2

\* The most records the console shows.
MaxConsole == 3

InitLog ==
    /\ normcase = FALSE
    /\ fs = MakeFs({}, {SrcDir})
    /\ fs0 = fs
    /\ args = NoArgs
    /\ \E now \in TicksPerSecond..(2 * TicksPerSecond - 1) :
          lg = FreshLogging(now)
    /\ pc = "log_api"
    /\ IdleRun
    /\ IdleApi

\* log_file = setup_logging(log_level)
ApiSetupLogging ==
    /\ pc = "log_api"
    /\ Len(returned_logs) < MaxSetupCalls
    /\ Len(lg.console) < MaxConsole
    /\ \E log_level \in {INFO, DEBUG} :
          lg' = setup_logging(lg, log_level)
    /\ returned_logs' = Append(returned_logs, log_file_at(lg.now))
    /\ UNCHANGED <<fs, normcase, pc, image_files, runVars, clear_calls, source_img,
                   raster, toolVars>>

\* logging.info(...) or logging.error(...) somewhere in the process.
ApiLog ==
    /\ pc = "log_api"
    /\ Len(lg.console) < MaxConsole
    /\ \E level \in {INFO, ERROR} :
          lg' = emit(lg, level, "message", 0)
    /\ UNCHANGED <<fs, normcase, pc, image_files, runVars, apiVars>>

\* The clock ticks.
Tick ==
    /\ pc = "log_api"
    /\ log_file_at(lg.now + 1) <= MaxClock
    /\ lg' = [lg EXCEPT !.now = @ + 1]
    /\ UNCHANGED <<fs, normcase, pc, image_files, runVars, apiVars>>

NextLog ==
    \/ ApiSetupLogging
    \/ ApiLog
    \/ Tick

SpecLog == InitLog /\ [][NextLog]_vars

\* C10: once setup_logging has been called a second time, the file that call
\* returned exists and every record emitted since, at a level the logger lets
\* through, is in that file.
C10_SecondCallReroutes ==
    Len(returned_logs) >= 2 =>
        /\ returned_logs[2] \in DOMAIN lg.files
        /\ \A i \in 1..Len(lg.console) :
              lg.console[i].calls >= 2 =>
                  \E j \in 1..Len(lg.files[returned_logs[2]]) :
                      lg.files[returned_logs[2]][j] = lg.console[i]

----------------------------------------------------------------------------
(* setup.py: the bootstrapper *)

\* os.path.dirname(os.path.abspath(__file__)): the directory setup.py is in.
script_dir == <<".">>

images == <<"i", "m", "a", "g", "e", "s">>

images_source == join(join(script_dir, images), <<"s", "o", "u", "r", "c", "e">>)

images_output == join(join(script_dir, images), <<"o", "u", "t", "p", "u", "t">>)

logs_dir == join(script_dir, <<"l", "o", "g", "s">>)

\* The directories setup_directories ensures, in its order.
directories == <<images_source, images_output, logs_dir>>

source_readme == join(images_source, <<"R", "E", "A", "D", "M", "E", ".", "m", "d">>)

output_readme == join(images_output, <<"R", "E", "A", "D", "M", "E", ".", "m", "d">>)

\* What create_readme_files writes into a README.
Seeded(readme) == [kind |-> "readme", of |-> readme, fmt |-> "text"]

\* The result of a file-system operation that may raise.
Done(f) == [fs |-> f, raised |-> FALSE]

Raised(f) == [fs |-> f, raised |-> TRUE]

\* os.mkdir(path): raises when the path exists or its parent is no directory.
mkdir(f, path) ==
    IF exists(f, path) \/ ~isdir(f, dirname(path))
    THEN Raised(f)
    ELSE Done([q \in DOMAIN f \cup {path} |-> IF q = path THEN Dir ELSE f[q]])

RECURSIVE makedirs(_, _)
\* os.makedirs(path): the missing parents are made first, then the directory;
\* an error of either leaves what was made so far.
makedirs(f, path) ==
    LET head == dirname(path)
        parents == IF head # <<>> /\ ~exists(f, head) THEN makedirs(f, head) ELSE Done(f)
    IN  IF parents.raised THEN parents ELSE mkdir(parents.fs, path)

RECURSIVE ensure_directories(_, _)
\* The loop of setup_directories over directories[1..n]: an exception of
\* os.makedirs ends it.
ensure_directories(f, n) ==
    IF n = 0 THEN Done(f)
    ELSE LET before == ensure_directories(f, n - 1)
         IN  IF before.raised THEN before
             ELSE IF ~exists(before.fs, directories[n])
                  THEN makedirs(before.fs, directories[n])
                  ELSE before

\* setup_directories()
setup_directories(f) == ensure_directories(f, Len(directories))

\* open(readme, 'w') and the writes: raises when the folder is no directory.
seed_readme(f, readme) ==
    IF exists(f, readme) THEN Done(f)
    ELSE IF ~isdir(f, dirname(readme)) THEN Raised(f)
    ELSE Done(write(f, readme, Seeded(readme)))

\* A seeding that writes the README whether or not it is there.
create_readme_files_overwriting(f) ==
    LET over(g, readme) ==
            IF ~isdir(g, dirname(readme)) \/ isdir(g, readme) THEN Raised(g)
            ELSE Done(write(g, readme, Seeded(readme)))
        first == over(f, source_readme)
    IN  IF first.raised THEN first ELSE over(first.fs, output_readme)

\* create_readme_files(): the source folder's README, then the output folder's.
create_readme_files(f) ==
    LET first == seed_readme(f, source_readme)
    IN  IF first.raised THEN first ELSE seed_readme(first.fs, output_readme)

\* check_python_version()
check_python_version(version) ==
    ~(version[1] < 3 \/ (version[1] = 3 /\ version[2] < 7))

\* The packages check_dependencies looks for, by the name pip knows.
required_packages == <<"pillow-heif", "Pillow", "reportlab">>

RECURSIVE collect_missing(_, _)
\* missing_packages after the loop over required_packages[1..n].
collect_missing(found, n) ==
    IF n = 0 THEN <<>>
    ELSE IF required_packages[n] \in found
         THEN collect_missing(found, n - 1)
         ELSE Append(collect_missing(found, n - 1), required_packages[n])

\* check_dependencies(): the second value it returns.
check_dependencies(found) == collect_missing(found, Len(required_packages))

\* A file the user keeps in the output folder.
kept_file == join(images_output, <<"a", ".", "p", "n", "g">>)

\* What a path of the installation is before the bootstrapper runs.
Kinds == {"missing", "file", "dir"}

\* The installation directory with each path of the given kind.
Installation(kind) ==
    [p \in {script_dir} \cup {q \in DOMAIN kind : kind[q] # "missing"} |->
        IF p = script_dir \/ kind[p] = "dir" THEN Dir ELSE File(Orig(p))]

\* The states the installation directory may be in: a path is there only in a
\* directory, and the user's file is a plain file.
Installations ==
    {Installation(kind) : kind \in
        {k \in [{join(script_dir, images), images_source, images_output, logs_dir,
                 source_readme, output_readme, kept_file} -> Kinds] :
            /\ k[join(script_dir, images)] # "dir" =>
                  k[images_source] = "missing" /\ k[images_output] = "missing"
            /\ k[images_source] # "dir" => k[source_readme] = "missing"
            /\ k[images_output] # "dir" =>
                  k[output_readme] = "missing" /\ k[kept_file] = "missing"
            /\ k[kept_file] # "dir"}}

\* The interpreters setup.py is run with.
Versions == {<<2, 7>>, <<3, 6>>, <<3, 7>>, <<3, 11>>, <<4, 0>>}

Step(step, what, ok) == [step |-> step, what |-> what, ok |-> ok]

InitSetup ==
    /\ normcase = FALSE
    /\ fs \in Installations
    /\ fs0 = fs
    /\ args = NoArgs
    /\ lg = FreshLogging(1)
    /\ pc = "setup_main"
    /\ IdleRun
    /\ clear_calls = <<>>
    /\ source_img = NoPicture
    /\ raster = NoPicture
    /\ returned_logs = <<>>
    /\ python \in Versions
    /\ importable \in SUBSET {required_packages[i] : i \in 1..Len(required_packages)}
    /\ missing_packages = <<>>
    /\ steps = <<>>
    /\ choice = <<>>
    /\ scenarios = <<>>

\* main: if not check_python_version(): sys.exit(1)
SetupCheckVersion ==
    /\ pc = "setup_main"
    /\ steps' = Append(steps, Step("version", "", check_python_version(python)))
    /\ IF check_python_version(python)
       THEN pc' = "setup_deps" /\ UNCHANGED exitCode
       ELSE pc' = "exit" /\ exitCode' = 1
    /\ UNCHANGED <<fs, normcase, image_files, args, fs0, scanned, idx, successful, failed,
                   attempts, stats, raised, lg, clear_calls, source_img, raster,
                   returned_logs, python, importable, missing_packages, choice, scenarios>>

\* main: dependencies_ok, missing_packages = check_dependencies()
SetupCheckDependencies ==
    /\ pc = "setup_deps"
    /\ missing_packages' = check_dependencies(importable)
    /\ steps' = Append(steps, Step("dependencies", "", check_dependencies(importable) = <<>>))
    /\ pc' = IF check_dependencies(importable) = <<>> THEN "setup_dirs" ELSE "setup_install"
    /\ UNCHANGED <<fs, normcase, image_files, runVars, lg, clear_calls, source_img, raster,
                   returned_logs, python, importable, choice, scenarios>>

\* main: the loop over missing_packages, one package a step; pip installs the
\* package or fails, and a failure ends the process with status 1.
SetupInstall ==
    /\ pc = "setup_install"
    /\ \E installed \in BOOLEAN :
          /\ steps' = Append(steps, Step("install", Head(missing_packages), installed))
          /\ IF installed
             THEN /\ importable' = importable \cup {Head(missing_packages)}
                  /\ missing_packages' = Tail(missing_packages)
                  /\ pc' = IF Tail(missing_packages) = <<>> THEN "setup_dirs" ELSE "setup_install"
                  /\ UNCHANGED exitCode
             ELSE /\ pc' = "exit"
                  /\ exitCode' = 1
                  /\ UNCHANGED <<importable, missing_packages>>
    /\ UNCHANGED <<fs, normcase, image_files, args, fs0, scanned, idx, successful, failed,
                   attempts, stats, raised, lg, clear_calls, source_img, raster,
                   returned_logs, python, choice, scenarios>>

\* main: setup_directories(); an exception of os.makedirs is caught nowhere and
\* ends the process with a traceback and status 1.
SetupDirectories ==
    /\ pc = "setup_dirs"
    /\ LET result == setup_directories(fs)
       IN  /\ fs' = result.fs
           /\ steps' = Append(steps, Step("directories", "", ~result.raised))
           /\ IF result.raised
              THEN pc' = "exit" /\ exitCode' = 1
              ELSE pc' = "setup_readmes" /\ UNCHANGED exitCode
    /\ UNCHANGED <<normcase, image_files, args, fs0, scanned, idx, successful, failed,
                   attempts, stats, raised, lg, clear_calls, source_img, raster,
                   returned_logs, python, importable, missing_packages, choice, scenarios>>

\* main: create_readme_files(), then the closing banner; main returns and the
\* process ends with status 0, or an exception of open() ends it with status 1.
SetupReadmes ==
    /\ pc = "setup_readmes"
    /\ LET result == create_readme_files(fs)
       IN  /\ fs' = result.fs
           /\ steps' = Append(steps, Step("readmes", "", ~result.raised))
           /\ exitCode' = IF result.raised THEN 1 ELSE 0
    /\ pc' = "exit"
    /\ UNCHANGED <<normcase, image_files, args, fs0, scanned, idx, successful, failed,
                   attempts, stats, raised, lg, clear_calls, source_img, raster,
                   returned_logs, python, importable, missing_packages, choice, scenarios>>

NextSetup ==
    \/ SetupCheckVersion
    \/ SetupCheckDependencies
    \/ SetupInstall
    \/ SetupDirectories
    \/ SetupReadmes

SpecSetup == InitSetup /\ [][NextSetup]_vars

\* The place of a step in the order main runs the steps in.
Rank(step) ==
    CASE step = "version" -> 1
      [] step = "dependencies" -> 2
      [] step = "install" -> 3
      [] step = "directories" -> 4
      [] step = "readmes" -> 5

\* The version check or an installation failed.
EnvironmentFailed ==
    \E i \in 1..Len(steps) : steps[i].step \in {"version", "install"} /\ ~steps[i].ok

\* C11: the steps run in the order version check, capability check,
\* installations, directory setup, README seeding; when the version check or an
\* installation fails the process ends at once with status 1 (that step is the
\* last, nothing is created); otherwise every step is completed and the
\* process ends with status 0.
C11_OrderAndExitStatus ==
    /\ \A i \in 1..Len(steps) : \A j \in 1..Len(steps) :
          i < j => /\ Rank(steps[i].step) <= Rank(steps[j].step)
                   /\ Rank(steps[i].step) = Rank(steps[j].step) => steps[i].step = "install"
    /\ pc = "exit" =>
          IF EnvironmentFailed
          THEN /\ exitCode = 1
               /\ ~steps[Len(steps)].ok
               /\ steps[Len(steps)].step \in {"version", "install"}
               /\ fs = fs0
          ELSE /\ exitCode = 0
               /\ \E i \in 1..Len(steps) : steps[i].step = "directories" /\ steps[i].ok
               /\ \E i \in 1..Len(steps) : steps[i].step = "readmes" /\ steps[i].ok

----------------------------------------------------------------------------
(* Directory and README setup on its own, run again and again *)

\* The most runs of the directory and README setup.
MaxSeedRuns == 2

SeedRun(before, after, ok) == [before |-> before, after |-> after, ok |-> ok]

InitSeed ==
    /\ normcase = FALSE
    /\ fs \in Installations
    /\ fs0 = fs
    /\ args = NoArgs
    /\ lg = FreshLogging(1)
    /\ pc = "seed_api"
    /\ IdleRun
    /\ IdleApi

\* setup_directories(); create_readme_files() -- as main calls them: an
\* exception of the first keeps the second from running.
CallSetupDirectoriesAndReadmes ==
    /\ pc = "seed_api"
    /\ Len(steps) < MaxSeedRuns
    /\ LET dirs == setup_directories(fs)
           result == IF dirs.raised THEN dirs ELSE create_readme_files(dirs.fs)
       IN  /\ fs' = result.fs
           /\ steps' = Append(steps, SeedRun(fs, result.fs, ~result.raised))
    /\ UNCHANGED <<normcase, pc, image_files, runVars, lg, clear_calls, source_img, raster,
                   returned_logs, python, importable, missing_packages, choice, scenarios>>

NextSeed == CallSetupDirectoriesAndReadmes

SpecSeed == InitSeed /\ [][NextSeed]_vars

\* C12: whatever the installation directory held, a run of the directory and
\* README setup keeps every directory and every file that was there, a README
\* with its content included, and a second run leaves the directory as the
\* first run left it.
C12_SetupTwiceSameContents ==
    \A k \in 1..Len(steps) :
        /\ \A q \in DOMAIN steps[k].before :
              q \in DOMAIN steps[k].after /\ steps[k].after[q] = steps[k].before[q]
        /\ k >= 2 => steps[k].after = steps[k - 1].after

\* The setup ran twice where the source folder had a README of the user's and
\* the output folder a file but no README: the first run seeded the output
\* README, and both runs kept the user's README and file.
C12_Witness ==
    /\ Len(steps) = 2
    /\ exists(fs0, source_readme) /\ ~isdir(fs0, source_readme)
    /\ exists(fs0, kept_file)
    /\ ~exists(fs0, output_readme)
    /\ ~exists(fs0, logs_dir)
    /\ steps[1].ok
    /\ fs[output_readme] = File(Seeded(output_readme))
    /\ fs[source_readme] = File(Orig(source_readme))
    /\ isdir(fs, logs_dir)

----------------------------------------------------------------------------
(* example_usage.py: the usage examples and their menu *)

\* The names convert_heic.py defines at its top level.
convert_heic_names ==
    {"setup_logging", "clear_output_folder", "get_image_files",
     "convert_image_to_format", "save_as_image", "convert_image_to_pdf",
     "convert_images", "main"}

\* The names example_usage.py imports from convert_heic.
imported_names ==
    {"convert_images", "convert_heic_to_image", "convert_heic_to_pdf",
     "save_as_image", "get_heic_files", "setup_logging"}

\* from convert_heic import (...): ImportError unless every name is defined.
import_succeeds == imported_names \subseteq convert_heic_names

RECURSIVE lstrip(_)
lstrip(s) == IF s # <<>> /\ Head(s) = " " THEN lstrip(Tail(s)) ELSE s

\* str.strip(), of a line of digits and spaces.
strip(s) == reversed(lstrip(reversed(lstrip(s))))

\* The examples main runs for a choice, in its order.
examples_for(c) ==
    CASE c = <<"1">> -> <<1>>
      [] c = <<"2">> -> <<2>>
      [] c = <<"3">> -> <<3>>
      [] c = <<"4">> -> <<4>>
      [] c = <<"5">> -> <<5>>
      [] c = <<"6">> -> <<6>>
      [] c = <<"0">> -> <<1, 2, 3, 4, 6>>
      [] OTHER -> <<>>

\* The longest line the user types at the menu.
MaxInput == 2

\* The characters the user types.
Keys == {"0", "1", "2", "3", "4", "5", "6", "7", " "}

InitExamples ==
    /\ normcase = FALSE
    /\ fs = MakeFs({}, {SrcDir})
    /\ fs0 = fs
    /\ args = NoArgs
    /\ lg = FreshLogging(1)
    /\ pc = "examples"
    /\ IdleRun
    /\ clear_calls = <<>>
    /\ source_img = NoPicture
    /\ raster = NoPicture
    /\ returned_logs = <<>>
    /\ python = <<3, 11>>
    /\ importable = {}
    /\ missing_packages = <<>>
    /\ steps = <<>>
    /\ \E n \in 0..MaxInput : choice \in [1..n -> Keys]
    /\ scenarios = <<>>

\* python example_usage.py: the module is executed from its top. The import
\* from convert_heic comes first; an ImportError ends the process with a
\* traceback and status 1 before main is reached. Otherwise main shows the
\* menu, reads the choice and runs the examples chosen.
LaunchExamples ==
    /\ pc = "examples"
    /\ IF import_succeeds
       THEN /\ scenarios' = examples_for(strip(choice))
            /\ exitCode' = 0
       ELSE /\ scenarios' = <<>>
            /\ exitCode' = 1
    /\ pc' = "exit"
    /\ UNCHANGED <<fs, normcase, image_files, args, fs0, scanned, idx, successful, failed,
                   attempts, stats, raised, lg, clear_calls, source_img, raster,
                   returned_logs, python, importable, missing_packages, steps, choice>>

NextExamples == LaunchExamples

SpecExamples == InitExamples /\ [][NextExamples]_vars

\* C13: once the examples module was launched and the user chose at the menu,
\* the choice "0" has run the examples 1, 2, 3, 4 and 6 in that order and
\* never example 5, and a choice that is none of "0".."6" has run none.
C13_MenuRunsExamples ==
    pc = "exit" =>
        /\ strip(choice) = <<"0">> => scenarios = <<1, 2, 3, 4, 6>>
        /\ strip(choice) \notin {<<k>> : k \in {"0", "1", "2", "3", "4", "5", "6"}} =>
              scenarios = <<>>

----------------------------------------------------------------------------
(* More claims about clearing, under SpecClear *)

\* The extensions of the files clearing is for, lower case.
ClearedExtensions ==
    { <<".", "p", "n", "g">>, <<".", "j", "p", "g">>, <<".", "j", "p", "e", "g">>,
      <<".", "p", "d", "f">> }

\* The plain files of the output folder that are candidates for deletion: all
\* but the README when it is to be kept.
Candidates(f, keep_readme) ==
    {n \in listdir(f, OutDir) :
        /\ ~isdir(f, join(OutDir, n))
        /\ ~(keep_readme /\ str_lower(n) = ReadmeName)}

\* The candidates whose extension, as os.path.splitext gives it, is one of the
\* four, whatever its case.
ByExtension(f, keep_readme) ==
    {n \in Candidates(f, keep_readme) : str_lower(splitext(n)[2]) \in ClearedExtensions}

\* The candidates whose name ends with one of the four extensions, whatever
\* its case.
BySuffix(f, keep_readme) ==
    {n \in Candidates(f, keep_readme) :
        \E e \in ClearedExtensions : endswith(str_lower(n), e)}

\* The call left the directory as it was but for the given names, which are gone.
OnlyGone(c, names) ==
    /\ DOMAIN c.after = DOMAIN c.before \ {join(OutDir, n) : n \in names}
    /\ \A q \in DOMAIN c.after : c.after[q] = c.before[q]

\* C14, as stated: a call on an existing directory deletes exactly the plain
\* files whose extension is one of the four, the README excepted when it is to
\* be kept, and leaves everything else; a call on a missing directory does
\* nothing.
C14_DeletesExactlyByExtension ==
    \A k \in 1..Len(clear_calls) :
        IF exists(clear_calls[k].before, OutDir)
        THEN OnlyGone(clear_calls[k],
                      ByExtension(clear_calls[k].before, clear_calls[k].keep_readme))
        ELSE clear_calls[k].after = clear_calls[k].before /\ clear_calls[k].report = ""

\* C14, amended: a call on an existing directory deletes exactly the plain
\* files whose name ends with one of the four extensions, whatever its case,
\* and whose deletion does not fail, the README excepted when it is to be kept,
\* and leaves everything else; a call on a missing directory does nothing.
C14_DeletesExactlyBySuffixUnlessFailed ==
    \A k \in 1..Len(clear_calls) :
        IF exists(clear_calls[k].before, OutDir)
        THEN OnlyGone(clear_calls[k],
                      BySuffix(clear_calls[k].before, clear_calls[k].keep_readme)
                         \ clear_calls[k].failing)
        ELSE clear_calls[k].after = clear_calls[k].before /\ clear_calls[k].report = ""

\* A call that kept the README cleared a directory with a README, a
\* subdirectory named like an image and a file with a mixed-case extension:
\* the file is gone, the other two are there.
C14_Witness ==
    /\ Len(clear_calls) >= 1
    /\ clear_calls[1].keep_readme
    /\ listdir(clear_calls[1].before, OutDir) =
          {<<"R", "E", "A", "D", "M", "E", ".", "m", "d">>, DirNamedLikeImage,
           <<"c", ".", "J", "p", "e", "g">>}
    /\ listdir(clear_calls[1].after, OutDir) =
          {<<"R", "E", "A", "D", "M", "E", ".", "m", "d">>, DirNamedLikeImage}

\* C15: when os.remove fails for some files, the call still deletes every other
\* file it is for, leaves the files whose deletion failed, counts exactly the
\* files that are gone, and returns normally, with its report logged.
C15_FailureDoesNotAbort ==
    \A k \in 1..Len(clear_calls) :
        (exists(clear_calls[k].before, OutDir) /\ clear_calls[k].failing # {}) =>
            /\ \A n \in BySuffix(clear_calls[k].before, clear_calls[k].keep_readme) :
                  exists(clear_calls[k].after, join(OutDir, n)) <=>
                     n \in clear_calls[k].failing
            /\ clear_calls[k].removed_count =
                  Cardinality(DOMAIN clear_calls[k].before)
                     - Cardinality(DOMAIN clear_calls[k].after)
            /\ clear_calls[k].report \in
                  {"Cleared file(s) from output folder", "Output folder is already clean"}

\* A call in which one deletion failed and two succeeded.
C15_Witness ==
    /\ Len(clear_calls) >= 1
    /\ Cardinality(clear_calls[1].failing) = 1
    /\ clear_calls[1].removed_count = 2
    /\ \A n \in clear_calls[1].failing : exists(fs, join(OutDir, n))

----------------------------------------------------------------------------
(* More claims about a run, under Spec *)

\* The plain files of the output directory with one of the four cleared
\* extensions that still hold what they held before the run.
Leftovers ==
    {q \in DOMAIN fs :
        /\ dirname(q) = args.output
        /\ ~isdir(fs, q)
        /\ str_lower(splitext(basename(q))[2]) \in ClearedExtensions
        /\ fs[q] = File(Orig(q))}

\* The warnings the log file holds about files that could not be removed.
RemovalWarnings ==
    {<<f, i>> \in UNION {{f} \X (1..Len(lg.files[f])) : f \in DOMAIN lg.files} :
        lg.files[f][i].msg = "Could not remove"}

\* convert_images is past its clearing step.
PastClearing == pc \in {"discover", "loop", "summary"} \/ (pc = "exit" /\ Returned)

\* No file that was there before the run is gone, and the files that changed
\* are at output paths of the jobs of the run.
OnlyJobOutputsChanged ==
    \A q \in DOMAIN fs0 :
        /\ q \in DOMAIN fs
        /\ fs[q] # fs0[q] => \E k \in 1..Len(attempts) : attempts[k].output_path = q

\* C16, as stated: with clearing enabled, from discovery on, whatever the
\* format and whether or not a source file is found, every .png/.jpg/.jpeg/.pdf
\* file of the output directory was written by the run; with clearing disabled
\* no file is deleted and only output paths of the run's jobs are overwritten.
C16_ClearsBeforeDiscovery ==
    /\ (PastClearing /\ ~args.no_clear) => Leftovers = {}
    /\ args.no_clear => OnlyJobOutputsChanged

\* C16, amended: with clearing enabled, from discovery on, whatever the format
\* and whether or not a source file is found, every .png/.jpg/.jpeg/.pdf file
\* of the output directory was written by the run or is one whose deletion
\* failed, a warning logged for each; with clearing disabled no file is
\* deleted and only output paths of the run's jobs are overwritten.
C16_ClearsBeforeDiscoveryUnlessFailed ==
    /\ (PastClearing /\ ~args.no_clear) =>
          (Leftovers = {} \/ Cardinality(Leftovers) <= Cardinality(RemovalWarnings))
    /\ (pc = "discover" /\ ~args.no_clear) =>
          Cardinality(Leftovers) = Cardinality(RemovalWarnings)
    /\ args.no_clear => OnlyJobOutputsChanged

\* A PDF run with clearing enabled has ended that found no source file, in an
\* output directory that held a PNG before: the PNG is gone.
C16_Witness ==
    /\ pc = "exit"
    /\ Returned
    /\ ~args.no_clear
    /\ str_upper(args.format) = PDF
    /\ stats.total = 0
    /\ args.output = OutDir
    /\ exists(fs0, join(OutDir, <<"a", ".", "p", "n", "g">>))
    /\ ~exists(fs, join(OutDir, <<"a", ".", "p", "n", "g">>))

\* C17: at no point of a run has a source image file gone or changed: every
\* plain file with a supported extension that the source directory held before
\* the run is there with the content it had.
C17_SourceFilesUntouched ==
    \A p \in SourceImages : p \in DOMAIN fs /\ fs[p] = fs0[p]

====
